---- MODULE Spec2Model ----
(***************************************************************************)
(* The normalized entity cache of discovery-core (cache/mod.rs):           *)
(* InMemoryCache with its result_cache and identity_cache, Data::new,      *)
(* normalize_data and denormalize_data, and the Key text form; and         *)
(* DiscoveryClient::query over a shared cache (client.rs).                 *)
(***************************************************************************)
EXTENDS Integers, Sequences, FiniteSets, TLC

VARIABLES result_cache, identity_cache, ret, writes,
          configured, query, borrow, applied

\* The state of a DiscoveryClient and of its query calls (client.rs).
client_vars == <<configured, query, borrow, applied>>

vars == <<result_cache, identity_cache, ret, writes, configured, query, borrow, applied>>

(***************************************************************************)
(* serde_json::Value.  A string is a sequence of characters, so that the   *)
(* Key text form can be split; an object is a function from field names to *)
(* values (serde_json::Map); numbers carry no payload (the code only asks  *)
(* whether a value is a string, an object or an array).                    *)
(***************************************************************************)
JString(s) == [k |-> "String", v |-> s]

JNumber == [k |-> "Number", v |-> <<>>]

JArray(a) == [k |-> "Array", v |-> a]

JObject(o) == [k |-> "Object", v |-> o]

TYPENAME == "__typename"

REF == "__ref"

field_name == "id"

\* The field names of the modelled documents, in the order Map::iter visits
\* them (serde_json's default Map is a BTreeMap: byte order of the names).
FieldOrder == <<"__m", "__ref", "__typename", "c", "id", "name">>

\* k.starts_with("__"), over the field names of FieldOrder.
starts_with__(k) == k \in {"__m", "__ref", "__typename"}

\* obj.iter(): the fields of obj in iteration order.
iter(obj) == SelectSeq(FieldOrder, LAMBDA f : f \in DOMAIN obj)

\* HashMap::insert / Map::insert: the entry for key is replaced or created.
insert(m, key, value) ==
    [x \in (DOMAIN m) \cup {key} |-> IF x = key THEN value ELSE m[x]]

Ok(x) == [t |-> "Ok", v |-> x]

Err(e) == [t |-> "Err", v |-> e]

\* A panic (unwrap on None / Err): the call does not return.
Panic == [t |-> "Panic", v |-> <<>>]

\* Unbounded recursion: the call overflows the stack and the process aborts.
StackOverflow == [t |-> "StackOverflow", v |-> <<>>]

(***************************************************************************)
(* Key(GraphQLType, Id) and its text form.                                 *)
(***************************************************************************)
\* A Key that drops the type.
Key_id_only(typename, id) == <<<<>>, id>>

Key(typename, id) == <<typename, id>>

typename(key) == key[1]

\* impl Into<String> for Key: format!("{}:{}", self.0, self.1)
KeyIntoString(key) == key[1] \o <<":">> \o key[2]

RECURSIVE split(_, _)
\* str::split(sep): the pieces of s between the occurrences of sep.
split(s, sep) ==
    IF \E i \in 1..Len(s) : s[i] = sep
    THEN LET i == CHOOSE j \in 1..Len(s) :
                      s[j] = sep /\ \A h \in 1..(j - 1) : s[h] # sep
         IN  <<SubSeq(s, 1, i - 1)>> \o split(SubSeq(s, i + 1, Len(s)), sep)
    ELSE <<s>>

\* A parse that cuts the text at its first ':' alone.
KeyTryFrom_split_once(value) ==
    IF \E i \in 1..Len(value) : value[i] = ":"
    THEN LET i == CHOOSE j \in 1..Len(value) :
                      value[j] = ":" /\ \A h \in 1..(j - 1) : value[h] # ":"
         IN  Ok(Key(SubSeq(value, 1, i - 1), SubSeq(value, i + 1, Len(value))))
    ELSE Err("error")

\* impl TryFrom<String> for Key
KeyTryFrom(value) ==
    LET sp == split(value, ":")
    IN  IF Len(sp) # 2 THEN Err("error") ELSE Ok(Key(sp[1], sp[2]))

(***************************************************************************)
(* Data::new and validate_data.  A path is the sequence of its segments    *)
(* ("root > c > 0" is <<"root", "c", "0">>).                               *)
(***************************************************************************)
IndexName == <<"0", "1", "2", "3">>

DataValidationError(kind, path, value) ==
    [e |-> kind, path |-> path, value |-> value]

RECURSIVE validate_data(_, _), validate_fields(_, _, _), validate_elems(_, _, _)
validate_data(path, value) ==
    CASE value.k = "Object" ->
            LET obj == value.v
                own == IF field_name \in DOMAIN obj
                       THEN IF TYPENAME \notin DOMAIN obj
                            THEN Err(DataValidationError("NotHasTypenameWhenHasId", path, value))
                            ELSE IF obj[TYPENAME].k # "String"
                            THEN Err(DataValidationError("TypeNameIsNotString", path, value))
                            ELSE Ok(<<>>)
                       ELSE Ok(<<>>)
            IN  IF own.t = "Err" THEN own ELSE validate_fields(path, obj, iter(obj))
      [] value.k = "Array" -> validate_elems(path, value.v, 1)
      [] OTHER -> Ok(<<>>)

\* for (k, v) in obj { if !k.starts_with("__") { validate_data(path > k, v)? } }
validate_fields(path, obj, ks) ==
    IF ks = <<>> THEN Ok(<<>>)
    ELSE LET f == Head(ks)
             r == IF starts_with__(f) THEN Ok(<<>>)
                  ELSE validate_data(Append(path, f), obj[f])
         IN  IF r.t = "Err" THEN r ELSE validate_fields(path, obj, Tail(ks))

\* for (i, v) in arr.iter().enumerate() { validate_data(path > i, v)? }
validate_elems(path, arr, i) ==
    IF i > Len(arr) THEN Ok(<<>>)
    ELSE LET r == validate_data(Append(path, IndexName[i]), arr[i])
         IN  IF r.t = "Err" THEN r ELSE validate_elems(path, arr, i + 1)

\* Data::new as it would be if it handed the root to validate_data.
DataNew_root(value) ==
    IF value.k \in {"Object", "Array"}
    THEN LET r == validate_data(<<"root">>, value)
         IN  IF r.t = "Err" THEN r ELSE Ok(value)
    ELSE Err(DataValidationError("InvalidJsonType", <<"root">>, value))

\* Data::new: Ok(Data(value)) or the first validation error.
DataNew(value) ==
    LET path == <<"root">>
        r == CASE value.k = "Object" -> validate_fields(path, value.v, iter(value.v))
               [] value.k = "Array" -> validate_elems(path, value.v, 1)
               [] OTHER -> Err(DataValidationError("InvalidJsonType", path, value))
    IN  IF r.t = "Err" THEN r ELSE Ok(value)

(***************************************************************************)
(* normalize_data.  The result is [v, l, p]: the returned value, the       *)
(* normalized_data_list after the call, and whether the call panicked (l   *)
(* is then the list as it stood at the panic).                             *)
(***************************************************************************)
RECURSIVE normalize_data(_, _), normalize_fields(_, _, _, _), normalize_elems(_, _, _, _)
normalize_data(value, normalized_data_list) ==
    CASE value.k = "Object" ->
            LET obj == value.v
                no == normalize_fields(obj, SelectSeq(iter(obj), LAMBDA f : ~starts_with__(f)),
                                       <<>>, normalized_data_list)
                normalized_obj == no.v
            IN  IF no.p THEN no
                ELSE IF field_name \in DOMAIN normalized_obj
                THEN IF normalized_obj[field_name].k # "String"
                        \/ TYPENAME \notin DOMAIN obj
                        \/ obj[TYPENAME].k # "String"
                     THEN [v |-> value, l |-> no.l, p |-> TRUE]
                     ELSE LET key == Key(obj[TYPENAME].v, normalized_obj[field_name].v)
                          IN  [v |-> JObject(REF :> JString(KeyIntoString(key))),
                               l |-> Append(no.l, <<key, JObject(normalized_obj)>>),
                               p |-> FALSE]
                ELSE [v |-> value, l |-> no.l, p |-> FALSE]
      [] value.k = "Array" ->
            LET na == normalize_elems(value.v, 1, <<>>, normalized_data_list)
            IN  [v |-> JArray(na.v), l |-> na.l, p |-> na.p]
      [] OTHER -> [v |-> value, l |-> normalized_data_list, p |-> FALSE]

\* The fields ks of obj, each mapped through normalize_data, collected into
\* a Map (acc), threading the list.
normalize_fields(obj, ks, acc, list) ==
    IF ks = <<>> THEN [v |-> acc, l |-> list, p |-> FALSE]
    ELSE LET n == normalize_data(obj[Head(ks)], list)
         IN  IF n.p THEN [v |-> acc, l |-> n.l, p |-> TRUE]
             ELSE normalize_fields(obj, Tail(ks), insert(acc, Head(ks), n.v), n.l)

\* The elements of arr from index i on, each mapped through normalize_data.
normalize_elems(arr, i, acc, list) ==
    IF i > Len(arr) THEN [v |-> acc, l |-> list, p |-> FALSE]
    ELSE LET n == normalize_data(arr[i], list)
         IN  IF n.p THEN [v |-> acc, l |-> n.l, p |-> TRUE]
             ELSE normalize_elems(arr, i + 1, Append(acc, n.v), n.l)

(***************************************************************************)
(* denormalize_data and the Cache methods of InMemoryCache.  `path` is the *)
(* set of keys whose get_identity_data call is on the call stack: the      *)
(* cache does not change during a read, so entering get_identity_data for  *)
(* a key that is already being expanded repeats the same calls for ever.   *)
(***************************************************************************)
CacheError(kind, arg) == [e |-> kind, a |-> arg]

\* serde_json::from_value::<Key>: a JSON string parsed by Key::try_from.
from_value(value) ==
    IF value.k # "String" THEN Err("error") ELSE KeyTryFrom(value.v)

\* What becomes of the result r of one denormalize_data call inside a map:
\* `.unwrap()` panics on Err, `?` returns it.
unwrap(r) == IF r.t = "Err" THEN Panic ELSE r

RECURSIVE denormalize_data(_, _, _), get_identity_data_in(_, _, _)
RECURSIVE denormalize_fields(_, _, _, _, _, _), denormalize_elems(_, _, _, _, _, _)
denormalize_data(value, cache, path) ==
    CASE value.k = "Object" ->
            LET obj == value.v
            IN  IF REF \notin DOMAIN obj
                THEN Err(CacheError("ExpectHasReference", value))
                ELSE LET key == from_value(obj[REF])
                     IN  IF key.t = "Err"
                         THEN Err(CacheError("ExpectHasReference", value))
                         ELSE get_identity_data_in(key.v, cache, path)
      [] value.k = "Array" ->
            LET ar == denormalize_elems(value.v, 1, <<>>, cache, path, FALSE)
            IN  IF ar.t = "Ok" THEN Ok(JArray(ar.v)) ELSE ar
      [] OTHER -> Ok(value)

\* InMemoryCache::get_identity_data, called with `path` on the stack.
get_identity_data_in(key, cache, path) ==
    IF key \notin DOMAIN cache THEN Err(CacheError("KeyNotFound", key))
    ELSE IF key \in path THEN StackOverflow
    ELSE LET normalized_data == cache[key]
         IN  IF normalized_data.k = "Object"
             THEN LET r == denormalize_fields(normalized_data.v, iter(normalized_data.v),
                                              <<>>, cache, path \cup {key}, TRUE)
                  IN  IF r.t = "Ok"
                      THEN Ok(JObject(insert(r.v, TYPENAME, JString(typename(key)))))
                      ELSE r
             ELSE LET r == denormalize_elems(normalized_data.v, 1, <<>>, cache,
                                             path \cup {key}, TRUE)
                  IN  IF r.t = "Ok" THEN Ok(JArray(r.v)) ELSE r

\* obj.iter().map(|(k, v)| (k, denormalize_data(v))) collected into a Map; the
\* first result that is not Ok ends the iteration (unwrapped: a panic).
denormalize_fields(obj, ks, acc, cache, path, unwrapped) ==
    IF ks = <<>> THEN Ok(acc)
    ELSE LET d == denormalize_data(obj[Head(ks)], cache, path)
             r == IF unwrapped THEN unwrap(d) ELSE d
         IN  IF r.t = "Ok"
             THEN denormalize_fields(obj, Tail(ks), insert(acc, Head(ks), r.v),
                                     cache, path, unwrapped)
             ELSE r

\* arr.iter().map(|v| denormalize_data(v)) collected into a Vec.
denormalize_elems(arr, i, acc, cache, path, unwrapped) ==
    IF i > Len(arr) THEN Ok(acc)
    ELSE LET d == denormalize_data(arr[i], cache, path)
             r == IF unwrapped THEN unwrap(d) ELSE d
         IN  IF r.t = "Ok"
             THEN denormalize_elems(arr, i + 1, Append(acc, r.v), cache, path, unwrapped)
             ELSE r

\* InMemoryCache::get_identity_data
get_identity_data(cache, key) == get_identity_data_in(key, cache, {})

\* get_result_data reporting every miss as a miss of the result key.
get_result_data_any_miss(results, cache, key) ==
    IF key \notin DOMAIN results \/ cache = <<>>
    THEN Err(CacheError("ResultKeyNotFound", key))
    ELSE Ok(results[key])

\* InMemoryCache::get_result_data
get_result_data(results, cache, key) ==
    IF key \notin DOMAIN results THEN Err(CacheError("ResultKeyNotFound", key))
    ELSE LET normalized_data == results[key]
         IN  IF normalized_data.k = "Object"
             THEN LET r == denormalize_fields(normalized_data.v, iter(normalized_data.v),
                                              <<>>, cache, {}, FALSE)
                  IN  IF r.t = "Ok" THEN Ok(JObject(r.v)) ELSE r
             ELSE LET r == denormalize_elems(normalized_data.v, 1, <<>>, cache, {}, FALSE)
                  IN  IF r.t = "Ok" THEN Ok(JArray(r.v)) ELSE r

\* store_identity_data with the insert in the wrong branch of a
\* remove-then-insert: a key that is present is only removed.
store_identity_data_toggle(cache, key, data) ==
    IF key \in DOMAIN cache
    THEN [x \in (DOMAIN cache) \ {key} |-> cache[x]]
    ELSE insert(cache, key, data)

\* store_identity_data merging the new record into the old one.
store_identity_data_merge(cache, key, data) ==
    IF key \in DOMAIN cache /\ cache[key].k = "Object" /\ data.k = "Object"
    THEN insert(cache, key, JObject(data.v @@ cache[key].v))
    ELSE insert(cache, key, data)

\* InMemoryCache::store_identity_data: the new identity_cache.
store_identity_data(cache, key, data) == insert(cache, key, data)

RECURSIVE store_all_rev(_, _)
\* The puts of the list taken from its end.
store_all_rev(cache, list) ==
    IF list = <<>> THEN cache
    ELSE store_all_rev(store_identity_data(cache, list[Len(list)][1], list[Len(list)][2]),
                       SubSeq(list, 1, Len(list) - 1))

RECURSIVE store_all(_, _)
\* for (key, value) in normalized_data_list { self.store_identity_data(..) }
store_all(cache, list) ==
    IF list = <<>> THEN cache
    ELSE store_all(store_identity_data(cache, Head(list)[1], Head(list)[2]), Tail(list))

\* The first statement of store_result_data: the root's fields (all of
\* them) or elements mapped through normalize_data.
normalize_root(data) ==
    IF data.k = "Object"
    THEN LET n == normalize_fields(data.v, iter(data.v), <<>>, <<>>)
         IN  [v |-> JObject(n.v), l |-> n.l, p |-> n.p]
    ELSE LET n == normalize_elems(data.v, 1, <<>>, <<>>)
         IN  [v |-> JArray(n.v), l |-> n.l, p |-> n.p]

\* store_result_data putting each record as soon as it is discovered.
store_result_data_eager(results, cache, key, data) ==
    LET n == normalize_root(data)
    IN  IF n.p
        THEN [res |-> Panic, result_cache |-> results,
              identity_cache |-> store_all(cache, n.l)]
        ELSE [res |-> Ok(n.v),
              result_cache |-> insert(results, key, n.v),
              identity_cache |-> store_all(cache, n.l)]

\* store_result_data keeping the result of the last call alone.
store_result_data_fresh(results, cache, key, data) ==
    LET n == normalize_root(data)
    IN  IF n.p
        THEN [res |-> Panic, result_cache |-> results, identity_cache |-> cache]
        ELSE [res |-> Ok(n.v),
              result_cache |-> (key :> n.v),
              identity_cache |-> store_all(cache, n.l)]

\* InMemoryCache::store_result_data: its result and the two stores after it.
store_result_data(results, cache, key, data) ==
    LET n == normalize_root(data)
    IN  IF n.p
        THEN [res |-> Panic, result_cache |-> results, identity_cache |-> cache]
        ELSE [res |-> Ok(n.v),
              result_cache |-> insert(results, key, n.v),
              identity_cache |-> store_all(cache, n.l)]

(***************************************************************************)
(* Documents.  Types A (a Person) and B (a Planet); one-character names.   *)
(***************************************************************************)
A == <<"A">>

B == <<"B">>

S(c) == JString(<<c>>)

\* An id that contains the separator of the Key text form.
ColonId == <<"1", ":">>

\* The empty Map.
NoFields == <<>>

\* An object carrying __typename t and id i besides the fields of rest.
Entity(t, i, rest) ==
    JObject((TYPENAME :> JString(t)) @@ (field_name :> JString(i)) @@ rest)

\* A reference marker, json!({ REF: key }).
Ref(key) == JObject(REF :> JString(KeyIntoString(key)))

Planet(i, n) == Entity(B, <<i>>, "name" :> S(n))

Person(i, n, homeworld) == Entity(A, <<i>>, ("name" :> S(n)) @@ ("c" :> homeworld))

\* The documents of the tests (test_data1 .. test_data4), with shorter strings.
test_data1 == JObject("c" :> Person("1", "x", Planet("1", "x")))

test_data2 ==
    JArray(<<Person("1", "x", Planet("1", "x")), Person("2", "y", Planet("1", "x"))>>)

test_data3 ==
    JObject("c" :> Person("1", "x", JArray(<<Planet("1", "x"), Planet("2", "y")>>)))

test_data4 ==
    JObject("c" :> JObject("c" :> JArray(<<JObject("c" :> Entity(A, <<"1">>, "name" :> S("x"))),
                                          JObject("c" :> Entity(A, <<"2">>, "name" :> S("y")))>>)))

\* Documents that Data::new accepts, stored by the sequences of Spec.
Docs ==
    { test_data1, test_data2, test_data3, test_data4,
      \* Planet 1 alone, with another body than in test_data1
      JObject("c" :> Planet("1", "y")),
      \* one Key twice in a list, with different bodies
      JArray(<<Entity(A, <<"1">>, "name" :> S("x")), Entity(A, <<"1">>, "name" :> S("y"))>>),
      \* B{id 2, friend: A{id 1, friend: B{id 2}}}
      JObject("c" :> Entity(B, <<"2">>, "c" :> Entity(A, <<"1">>, "c" :> Entity(B, <<"2">>, NoFields)))),
      \* an id containing ':'
      JObject("c" :> Entity(A, ColonId, "name" :> S("x"))),
      \* an entity, then an object whose id is not a string
      JArray(<<Planet("1", "y"), JObject((TYPENAME :> JString(A)) @@ (field_name :> JNumber))>>),
      \* an identifiable root
      Entity(A, <<"1">>, "name" :> S("x")),
      \* an entity with an extra metadata field
      JObject("c" :> Entity(A, <<"1">>, ("__m" :> S("x")) @@ ("name" :> S("x")))),
      \* an object with id and no __typename under a metadata field of the root
      JObject(("__m" :> JObject(field_name :> S("1"))) @@ ("name" :> S("x"))),
      \* an entity under a metadata field of an entity
      JObject("c" :> Entity(A, <<"1">>, "__m" :> Planet("1", "x"))),
      \* an entity holding an object without id
      JObject("c" :> Entity(A, <<"1">>, "c" :> JObject("name" :> S("x")))),
      \* no entity at all
      JObject("name" :> S("x")),
      JArray(<<S("x"), JNumber>>) }

\* Values that Data::new rejects.
BadDocs ==
    { S("x"),
      JObject("c" :> JObject(field_name :> S("1"))),
      JObject("c" :> JObject((TYPENAME :> JNumber) @@ (field_name :> S("1")))),
      JArray(<<Planet("1", "x"), JObject((field_name :> S("1")) @@ ("name" :> S("x")))>>) }

\* Documents stored by the sequences of SpecStore: those of Docs, and
StoreDocs ==
    Docs \cup
    { \* an entity holding an object without id that holds metadata and an entity
      JObject("c" :> Entity(A, <<"1">>,
                  "c" :> JObject(("__m" :> S("x")) @@ ("c" :> Planet("1", "x"))))),
      \* an object without id that carries a __ref field of its own
      JObject("c" :> JObject(REF :> JString(<<"A", ":", "1">>))) }

\* The characters of the types, ids and texts given to the Key conversions.
Chars == {"A", "1", ":"}

\* The longest type or id of a Key.
MaxLen == 2

\* The strings of at most n characters.
StringsUpTo(n) == UNION {[1..m -> Chars] : m \in 0..n}

\* name, or no such field, with a value of choices.
OptField(name, choices) == {NoFields} \cup {name :> c : c \in choices}

TypenameChoices == {JString(A), JString(B), JNumber}

IdChoices == {S("1"), JString(ColonId), JNumber}

\* Objects without children: any of __typename and id, with or without name.
LeafCore ==
    { JObject(t @@ i) : t \in OptField(TYPENAME, TypenameChoices),
                        i \in OptField(field_name, IdChoices) }

Leaves ==
    { JObject(l.v @@ n) : l \in LeafCore, n \in OptField("name", {S("x")}) }

\* What a metadata field holds: a scalar, an object with id and no
\* __typename, an entity.
MetaChoices == {S("x"), JObject(field_name :> S("1")), Planet("1", "x")}

\* Objects with one child c, any of __typename and id, and maybe a metadata field.
Mid ==
    { JObject(h.v @@ m @@ ("c" :> c)) :
          h \in LeafCore, m \in OptField("__m", MetaChoices),
          c \in LeafCore \cup {S("x"), JArray(<<Planet("1", "x"), Planet("1", "y")>>)} }

\* The roots with their own __typename, id and metadata field.
Roots ==
    { JObject(h @@ m @@ ("c" :> c)) :
          h \in {NoFields, field_name :> S("1"),
                 (TYPENAME :> JString(A)) @@ (field_name :> S("1"))},
          m \in OptField("__m", MetaChoices),
          c \in LeafCore }

\* The documents of SpecOne: every shape above, valid or not.
AllDocs ==
    {JObject("c" :> v) : v \in Mid \cup Leaves \cup {S("x")}}
        \cup Roots
        \cup {JArray(<<a>>) : a \in Leaves}
        \cup {JArray(<<a, b>>) : a \in Leaves, b \in Leaves}
        \cup {S("x"), JNumber}

ResultKeys == {"q1", "q2"}

\* What store_identity_data is called with directly.
PutKeys == {Key(A, <<"1">>), Key(B, <<"1">>)}

PutRecords ==
    { JObject((field_name :> S("1")) @@ ("name" :> S("y"))),
      JObject((field_name :> S("1")) @@ ("c" :> Ref(Key(B, <<"1">>)))),
      JArray(<<Ref(Key(A, <<"1">>))>>) }

\* The number of mutating calls in one run of Spec.
MaxWrites == 2

(***************************************************************************)
(* The state machine.  ret is the last call and what it returned.          *)
(***************************************************************************)
\* InMemoryCache::identify(&self, data): the body is todo!(), which panics
\* whatever data is.
identify(data) == Panic

JNull == [k |-> "Null", v |-> <<>>]

Call(op, rkey, ikey, data, res) ==
    [op |-> op, rkey |-> rkey, ikey |-> ikey, data |-> data, res |-> res]

\* The query calls of a client: two futures that may be interleaved.
QueryIds == {1, 2}

\* A query call that has not started: no request, nothing sent, no outcome.
IdleQuery == [pc |-> "idle", request |-> "", sends |-> 0, stored |-> FALSE, res |-> Ok(<<>>)]

\* InMemoryCache::new(), wrapped in a CacheWrap that a client was built with
\* and no query has borrowed.
Init ==
    /\ result_cache = <<>>
    /\ identity_cache = <<>>
    /\ ret = Call("new", "", <<>>, JNull, Ok(<<>>))
    /\ writes = 0
    /\ configured = TRUE
    /\ query = [q \in QueryIds |-> IdleQuery]
    /\ borrow = {}
    /\ applied = <<>>

\* Data::new(value)
New(value) ==
    /\ ret' = Call("Data::new", "", <<>>, value, DataNew(value))
    /\ UNCHANGED <<result_cache, identity_cache, writes>>
    /\ UNCHANGED client_vars

\* cache.store_result_data(&key, data), data a Data (built by Data::new)
StoreResult(key, data) ==
    /\ DataNew(data).t = "Ok"
    /\ LET s == store_result_data(result_cache, identity_cache, key, data)
       IN  /\ result_cache' = s.result_cache
           /\ identity_cache' = s.identity_cache
           /\ ret' = Call("store_result_data", key, <<>>, data, s.res)
    /\ writes' = writes + 1
    /\ UNCHANGED client_vars

\* cache.get_result_data(&key)
GetResult(key) ==
    /\ ret' = Call("get_result_data", key, <<>>, JNull,
                   get_result_data(result_cache, identity_cache, key))
    /\ UNCHANGED <<result_cache, identity_cache, writes>>
    /\ UNCHANGED client_vars

\* cache.get_identity_data(&key)
GetIdentity(key) ==
    /\ ret' = Call("get_identity_data", "", key, JNull,
                   get_identity_data(identity_cache, key))
    /\ UNCHANGED <<result_cache, identity_cache, writes>>
    /\ UNCHANGED client_vars

\* cache.identify(&data), data a Data (built by Data::new)
Identify(data) ==
    /\ ret' = Call("identify", "", <<>>, data, identify(data))
    /\ UNCHANGED <<result_cache, identity_cache, writes>>
    /\ UNCHANGED client_vars

\* cache.store_identity_data(&key, data)
StoreIdentity(key, data) ==
    /\ identity_cache' = store_identity_data(identity_cache, key, data)
    /\ ret' = Call("store_identity_data", "", key, data, Ok(<<>>))
    /\ writes' = writes + 1
    /\ UNCHANGED result_cache
    /\ UNCHANGED client_vars

\* cache.result_cache.clear()
ClearResult ==
    /\ result_cache' = <<>>
    /\ ret' = Call("result_cache.clear", "", <<>>, JNull, Ok(<<>>))
    /\ writes' = writes + 1
    /\ UNCHANGED identity_cache
    /\ UNCHANGED client_vars

\* cache.identity_cache.clear()
ClearIdentity ==
    /\ identity_cache' = <<>>
    /\ ret' = Call("identity_cache.clear", "", <<>>, JNull, Ok(<<>>))
    /\ writes' = writes + 1
    /\ UNCHANGED result_cache
    /\ UNCHANGED client_vars

\* let text: String = key.into()
KeyInto(key) ==
    /\ ret' = Call("Key::into", "", key, JNull, Ok(KeyIntoString(key)))
    /\ UNCHANGED <<result_cache, identity_cache, writes>>
    /\ UNCHANGED client_vars

\* Key::try_from(text)
KeyFrom(text) ==
    /\ ret' = Call("Key::try_from", "", <<>>, JString(text), KeyTryFrom(text))
    /\ UNCHANGED <<result_cache, identity_cache, writes>>
    /\ UNCHANGED client_vars

\* The keys a read is tried with: every key present, and one fixed key.
ProbeKeys == (DOMAIN identity_cache) \cup {Key(B, <<"1">>)}

Reads ==
    \/ \E key \in ResultKeys : GetResult(key)
    \/ \E key \in ProbeKeys : GetIdentity(key)

Next ==
    \/ \E value \in Docs \cup BadDocs : New(value)
    \/ writes < MaxWrites /\ \E key \in ResultKeys, data \in Docs : StoreResult(key, data)
    \/ writes < MaxWrites /\ \E key \in PutKeys, data \in PutRecords : StoreIdentity(key, data)
    \/ writes < MaxWrites /\ ClearResult
    \/ writes < MaxWrites /\ ClearIdentity
    \/ Reads

Spec == Init /\ [][Next]_vars

\* One document, any shape: Data::new on it, then (when it is accepted) one
\* store_result_data call on the empty cache or one identify call, then reads.
NextOne ==
    \/ ret.op = "new" /\ \E value \in AllDocs : New(value)
    \/ /\ ret.op = "Data::new"
       /\ ret.res.t = "Ok"
       /\ StoreResult("q1", ret.res.v)
    \/ /\ ret.op = "Data::new"
       /\ ret.res.t = "Ok"
       /\ Identify(ret.res.v)
    \/ Reads

SpecOne == Init /\ [][NextOne]_vars

\* Sequences of store_result_data calls alone, and reads.
NextStore ==
    \/ writes < MaxWrites /\ \E key \in ResultKeys, data \in StoreDocs : StoreResult(key, data)
    \/ Reads

SpecStore == Init /\ [][NextStore]_vars

\* The two conversions of Key: one of them on any Key or any text of the
\* bounds, and the parse of a text that the other conversion produced.
NextKey ==
    \/ /\ ret.op = "new"
       /\ \E t \in StringsUpTo(MaxLen), i \in StringsUpTo(MaxLen) : KeyInto(Key(t, i))
    \/ /\ ret.op = "new"
       /\ \E text \in StringsUpTo(2 * MaxLen + 1) : KeyFrom(text)
    \/ /\ ret.op = "Key::into"
       /\ KeyFrom(ret.res.v)

SpecKey == Init /\ [][NextKey]_vars

(***************************************************************************)
(* DiscoveryClient::query (client.rs).  A query call runs from its start   *)
(* to the network send, is suspended there, and runs from the arrival of   *)
(* the response to its end; the calls of one client share the cache        *)
(* through Rc<RefCell<C>> and run on one thread.                           *)
(***************************************************************************)
\* The request bodies of the model.
Requests == {"R1", "R2"}

\* request_body_hash: base64 of the SHA-1 of the serialized body; the two
\* requests have different hashes.
request_body_hash(request) == IF request = "R1" THEN "q1" ELSE "q2"

\* The panic of RefCell::borrow_mut on a cell that is borrowed.
BorrowMutError == [t |-> "BorrowMutError", v |-> <<>>]

\* c.inner().borrow_mut(), called by q while holders have the cell.
borrow_mut(holders, q) == IF holders = {} THEN Ok({q}) ELSE BorrowMutError

\* A RefMut kept past the statement that took it.
drop_temporary_kept(holders, q) == holders

\* The RefMut of c.inner().borrow_mut() is a temporary of the statement
\* that calls the cache: it is dropped where the statement ends (also when
\* the call unwinds).
drop_temporary(holders, q) == holders \ {q}

\* query from its start to the send: the lookup, and on a hit the end.
QueryLookup(q, request) ==
    /\ query[q].pc = "idle"
    /\ LET body_hash == request_body_hash(request)
           sending == [pc |-> "sending", request |-> request, sends |-> 1,
                       stored |-> FALSE, res |-> Ok(<<>>)]
           done(res) == [pc |-> "done", request |-> request, sends |-> 0,
                         stored |-> FALSE, res |-> res]
       IN  IF ~configured
           THEN /\ query' = [query EXCEPT ![q] = sending]
                /\ UNCHANGED <<ret, borrow>>
           ELSE LET b == borrow_mut(borrow, q)
                IN  IF b.t # "Ok"
                    THEN /\ query' = [query EXCEPT ![q] = done(b)]
                         /\ UNCHANGED <<ret, borrow>>
                    ELSE LET cached == get_result_data(result_cache, identity_cache, body_hash)
                         IN  /\ ret' = Call("get_result_data", body_hash, <<>>, JNull, cached)
                             /\ borrow' = drop_temporary(b.v, q)
                             /\ query' = [query EXCEPT ![q] =
                                             CASE cached.t = "Ok" -> done(cached)
                                               [] cached.t = "Err" -> sending
                                               [] OTHER -> done(cached)]
    /\ UNCHANGED <<result_cache, identity_cache, writes, configured, applied>>

\* query from the arrival of the response body to its end: Data::new, the
\* store, the answer.
QueryReceive(q, value) ==
    /\ query[q].pc = "sending"
    /\ LET body_hash == request_body_hash(query[q].request)
           data == DataNew(value)
           done(stored, res) == [query[q] EXCEPT !.pc = "done", !.stored = stored, !.res = res]
           b == borrow_mut(borrow, q)
       IN  IF data.t = "Err" \/ ~configured \/ b.t # "Ok"
           THEN /\ query' = [query EXCEPT ![q] =
                               done(FALSE, IF data.t = "Err" THEN data
                                           ELSE IF ~configured THEN Ok(value) ELSE b)]
                /\ UNCHANGED <<result_cache, identity_cache, ret, writes, borrow, applied>>
           ELSE LET s == store_result_data(result_cache, identity_cache, body_hash, data.v)
                IN  /\ result_cache' = s.result_cache
                    /\ identity_cache' = s.identity_cache
                    /\ ret' = Call("store_result_data", body_hash, <<>>, data.v, s.res)
                    /\ writes' = writes + 1
                    /\ applied' = Append(applied, <<body_hash, data.v>>)
                    /\ borrow' = drop_temporary(b.v, q)
                    /\ query' = [query EXCEPT ![q] =
                                    done(s.res.t = "Ok",
                                         IF s.res.t = "Panic" THEN Panic ELSE Ok(value))]
    /\ UNCHANGED configured

\* The send fails: query returns the reqwest error.
QuerySendError(q) ==
    /\ query[q].pc = "sending"
    /\ query' = [query EXCEPT ![q] = [@ EXCEPT !.pc = "done", !.res = Err("ReqwestError")]]
    /\ UNCHANGED <<result_cache, identity_cache, ret, writes, configured, borrow, applied>>

\* A client built with a cache or without one.
InitClient ==
    /\ result_cache = <<>>
    /\ identity_cache = <<>>
    /\ ret = Call("new", "", <<>>, JNull, Ok(<<>>))
    /\ writes = 0
    /\ configured \in BOOLEAN
    /\ query = [q \in QueryIds |-> IdleQuery]
    /\ borrow = {}
    /\ applied = <<>>

\* Two query calls of one client, interleaved at their sends.
NextClient ==
    \/ \E q \in QueryIds, request \in Requests : QueryLookup(q, request)
    \/ \E q \in QueryIds, value \in Docs \cup BadDocs : QueryReceive(q, value)
    \/ \E q \in QueryIds : QuerySendError(q)

SpecClient == InitClient /\ [][NextClient]_vars

(***************************************************************************)
(* Vocabulary of the properties, stated on documents and not through the   *)
(* operators above.                                                        *)
(***************************************************************************)
MetaNames == {"__m", "__ref", "__typename"}

RECURSIVE ObjectsFrom(_)
\* The objects met from value (value included) without passing through a
\* field whose name begins with "__".
ObjectsFrom(value) ==
    CASE value.k = "Object" ->
            {value} \cup UNION {ObjectsFrom(value.v[f]) : f \in (DOMAIN value.v) \ MetaNames}
      [] value.k = "Array" -> UNION {ObjectsFrom(value.v[i]) : i \in 1..Len(value.v)}
      [] OTHER -> {}

RECURSIVE AllObjects(_)
\* Every object of value, at any depth and under any field.
AllObjects(value) ==
    CASE value.k = "Object" ->
            {value} \cup UNION {AllObjects(value.v[f]) : f \in DOMAIN value.v}
      [] value.k = "Array" -> UNION {AllObjects(value.v[i]) : i \in 1..Len(value.v)}
      [] OTHER -> {}

\* The values directly under the root: its fields (all of them, or those
\* that are not metadata) or its elements.
RootChildren(data, withMeta) ==
    CASE data.k = "Object" ->
            {data.v[f] : f \in IF withMeta THEN DOMAIN data.v ELSE (DOMAIN data.v) \ MetaNames}
      [] data.k = "Array" -> {data.v[i] : i \in 1..Len(data.v)}
      [] OTHER -> {}

HasId(o) == field_name \in DOMAIN o.v

HasStringTypename(o) == TYPENAME \in DOMAIN o.v /\ o.v[TYPENAME].k = "String"

\* The (__typename, id) pair of an object that carries an id (JNull for an
\* absent __typename).
PairOf(o) == <<IF TYPENAME \in DOMAIN o.v THEN o.v[TYPENAME] ELSE JNull, o.v[field_name]>>

\* The objects below the root that store_result_data meets as candidates:
\* under any field of the root, then through non-metadata fields only.
BelowRoot(data) == UNION {ObjectsFrom(c) : c \in RootChildren(data, TRUE)}

\* The objects below the root that Data::new looks at.
ValidatedBelowRoot(data) == UNION {ObjectsFrom(c) : c \in RootChildren(data, FALSE)}

IsStore == ret.op = "store_result_data"

\* res is Err(kind(arg)).
IsErr(res, kind, arg) == res.t = "Err" /\ res.v.e = kind /\ res.v.a = arg

IsRead == ret.op \in {"get_result_data", "get_identity_data"}

\* The (Key, record) pairs of the entities below the root, by their objects.
EntityObjects(data) == {o \in BelowRoot(data) : HasId(o)}

\* No Key occurs in two different objects of data, and no object of data
\* carries a metadata field besides __typename.
Plain(data) ==
    /\ \A o1, o2 \in {o \in AllObjects(data) : HasId(o)} : PairOf(o1) = PairOf(o2) => o1 = o2
    /\ \A o \in AllObjects(data) : (DOMAIN o.v) \cap MetaNames \subseteq {TYPENAME}

(***************************************************************************)
(* C1.  Round trip: store_result_data(k, D) that returned Ok, followed     *)
(* immediately by get_result_data(k), returns Ok(D).  Stated for the       *)
(* documents in which every (type, id) occurs once and no object carries a *)
(* metadata field besides __typename; nested objects without id are among  *)
(* them.  (The claim covers repeated entities and metadata fields too.)    *)
(***************************************************************************)
C1_RoundTrip ==
    [][(IsStore /\ ret.res.t = "Ok" /\ Plain(ret.data)
            /\ ret'.op = "get_result_data" /\ ret'.rkey = ret.rkey)
          => ret'.res = Ok(ret.data)]_vars

C3_AtomicWrite ==
    [][/\ (ret'.op = "Data::new" /\ ret'.res.t = "Err")
            => UNCHANGED <<result_cache, identity_cache>>
       /\ ret'.op = "store_result_data"
            => \/ /\ ret'.res.t = "Ok"
                  /\ \A o \in EntityObjects(ret'.data) :
                         <<o.v[TYPENAME].v, o.v[field_name].v>> \in DOMAIN identity_cache'
                  /\ ret'.rkey \in DOMAIN result_cache'
                  /\ result_cache'[ret'.rkey] = ret'.res.v
               \/ /\ ret'.res.t # "Ok"
                  /\ UNCHANGED <<result_cache, identity_cache>>]_vars

\* A store that aborted after it had discovered an entity, on a cache that
\* held entries.
C3_Witness ==
    /\ IsStore /\ ret.res = Panic
    /\ normalize_root(ret.data).l # <<>>
    /\ result_cache # <<>>
    /\ ~(normalize_root(ret.data).l[1][1] \in DOMAIN identity_cache)

Offending(data) == {o \in ValidatedBelowRoot(data) : HasId(o) /\ ~HasStringTypename(o)}

C5_ReadErrorsAreValues == IsRead => ret.res.t # "Panic"

(***************************************************************************)
(* C6.  Result miss: get_result_data(k) returns Err(ResultKeyNotFound(k))  *)
(* exactly if the result store has no entry for k, whatever the identity   *)
(* store holds.                                                            *)
(***************************************************************************)
C6_ResultMiss ==
    ret.op = "get_result_data"
        => (IsErr(ret.res, "ResultKeyNotFound", ret.rkey)
                <=> ret.rkey \notin DOMAIN result_cache)

\* A miss after the result store was cleared, the identity store still
\* holding the entities of the stored document.
C6_Witness ==
    /\ ret.op = "get_result_data"
    /\ IsErr(ret.res, "ResultKeyNotFound", ret.rkey)
    /\ result_cache = <<>>
    /\ writes = 2
    /\ Cardinality(DOMAIN identity_cache) = 3

\* value holds, at some depth reached without passing through a metadata
\* field, an object that carries an id.
HasEntityBody(value) == \E o \in ObjectsFrom(value) : HasId(o)

(***************************************************************************)
(* C7.  The result store holds references only: below the root of a result *)
(* entry no object carries an id (every identifiable object of the stored  *)
(* document is there as a __ref marker).                                   *)
(***************************************************************************)
C7_ResultHoldsReferences ==
    \A key \in DOMAIN result_cache :
        \A c \in RootChildren(result_cache[key], TRUE) : ~HasEntityBody(c)

(***************************************************************************)
(* C8.  Reads terminate: no get_result_data and no get_identity_data call  *)
(* recurses without bound.                                                 *)
(***************************************************************************)
C8_ReadsTerminate == IsRead => ret.res.t # "StackOverflow"

(***************************************************************************)
(* C9.  Idempotence: right after store_result_data(k, D), the same call    *)
(* once more returns the same result and leaves both stores as they are.   *)
(***************************************************************************)
C9_Idempotence ==
    IsStore
        => LET again == store_result_data(result_cache, identity_cache, ret.rkey, ret.data)
           IN  /\ again.res = ret.res
               /\ again.result_cache = result_cache
               /\ again.identity_cache = identity_cache

\* The second of two stores, of a document in which one Key occurs twice
\* with different bodies, on a cache that holds another result.
C9_Witness ==
    /\ IsStore /\ ret.res.t = "Ok" /\ writes = 2
    /\ \E o1, o2 \in EntityObjects(ret.data) : o1 # o2 /\ PairOf(o1) = PairOf(o2)
    /\ DOMAIN result_cache = ResultKeys

\* The record of the last pair of list that has key.
LastRecord(list, key) ==
    list[CHOOSE i \in 1..Len(list) :
             list[i][1] = key /\ \A j \in (i + 1)..Len(list) : list[j][1] # key][2]

(***************************************************************************)
(* C10.  Last write wins, no merge: after store_result_data the record     *)
(* under every Key of the document is exactly the record of the Key's last *)
(* occurrence in discovery order; after store_identity_data(K, r) the      *)
(* record under K is exactly r.                                            *)
(***************************************************************************)
C10_LastWriteWins ==
    /\ (IsStore /\ ret.res.t = "Ok")
         => LET list == normalize_root(ret.data).l
            IN  \A i \in 1..Len(list) :
                    /\ list[i][1] \in DOMAIN identity_cache
                    /\ identity_cache[list[i][1]] = LastRecord(list, list[i][1])
    /\ ret.op = "store_identity_data"
         => /\ ret.ikey \in DOMAIN identity_cache
            /\ identity_cache[ret.ikey] = ret.data

\* test_data1 was stored under q1 (Person 1 with name and homeworld), then a
\* document whose Person 1 has a name and no homeworld under q2.
C10_Witness ==
    /\ IsStore /\ ret.res.t = "Ok" /\ writes = 2 /\ ret.rkey = "q2"
    /\ "q1" \in DOMAIN result_cache
    /\ result_cache["q1"] = JObject("c" :> Ref(Key(A, <<"1">>)))
    /\ Key(A, <<"1">>) \in DOMAIN identity_cache
    /\ DOMAIN identity_cache[Key(A, <<"1">>)].v = {field_name, "name"}
    /\ Key(B, <<"1">>) \in DOMAIN identity_cache

\* C11: get_identity_data of a Key (T, i) written by store_result_data
\* returns an object whose __typename is T, whose id is i, and whose other
\* fields are those of the stored record, every reference marker among them
\* resolved to an object that carries its own __typename.
C11_GetReattachesType ==
    (ret.op = "get_identity_data" /\ ret.ikey \in DOMAIN identity_cache) =>
        LET rec == identity_cache[ret.ikey]
        IN  /\ ret.res.t = "Ok"
            /\ ret.res.v.k = "Object"
            /\ DOMAIN ret.res.v.v = (DOMAIN rec.v) \cup {TYPENAME}
            /\ ret.res.v.v[TYPENAME] = JString(ret.ikey[1])
            /\ ret.res.v.v[field_name] = JString(ret.ikey[2])
            /\ \A f \in DOMAIN rec.v :
                  IF rec.v[f].k = "Object"
                  THEN /\ ret.res.v.v[f].k = "Object"
                       /\ HasStringTypename(ret.res.v.v[f])
                       /\ REF \notin DOMAIN ret.res.v.v[f].v
                  ELSE rec.v[f].k # "Array" => ret.res.v.v[f] = rec.v[f]

\* C12: identify returns: Ok(Key(type, id)) for a fragment that carries both
\* id and __typename, a NotIdentifiable error for any other fragment; it
\* never aborts.
C12_IdentifyTotal ==
    ret.op = "identify" =>
        /\ ret.res.t \in {"Ok", "Err"}
        /\ IF ret.data.k = "Object" /\ HasId(ret.data) /\ HasStringTypename(ret.data)
           THEN /\ ret.res.t = "Ok"
                /\ <<JString(ret.res.v[1]), JString(ret.res.v[2])>> = PairOf(ret.data)
           ELSE ret.res.t = "Err"

\* The number of ':' in s.
Colons(s) == Cardinality({j \in 1..Len(s) : s[j] = ":"})

\* C13: the text of Key (t, i) is t ++ ":" ++ i; a text parses if and only
\* if it holds exactly one ':', and then to the parts before and after it;
\* the text of a Key parses back to that Key exactly when neither t nor i
\* holds a ':', and fails to parse otherwise, and then the reference marker
\* that carries it is not resolved although the Key is present.
C13_KeyTextForm ==
    /\ ret.op = "Key::into" =>
          LET t == ret.ikey[1]
              i == ret.ikey[2]
              text == ret.res.v
              back == KeyTryFrom(text)
              marker == JObject(REF :> JString(text))
              read == denormalize_data(marker, (ret.ikey :> JObject(field_name :> JString(i))), {})
          IN  /\ text = t \o <<":">> \o i
              /\ IF Colons(t) = 0 /\ Colons(i) = 0
                 THEN back = Ok(ret.ikey) /\ read.t = "Ok"
                 ELSE back.t = "Err" /\ IsErr(read, "ExpectHasReference", marker)
    /\ ret.op = "Key::try_from" =>
          IF Colons(ret.data.v) = 1
          THEN /\ ret.res.t = "Ok"
               /\ ret.res.v[1] \o <<":">> \o ret.res.v[2] = ret.data.v
               /\ Colons(ret.res.v[1]) = 0
          ELSE ret.res.t = "Err"

\* The text of a Key whose id holds a ':' was produced.
C13_Witness == ret.op = "Key::into" /\ ret.ikey = Key(A, ColonId)

\* C14: store_result_data of a document that Data::new accepted returns Ok
\* or Err; it does not abort, whatever the id of an identifiable object is
\* and wherever an object with id and no string __typename sits.
C14_StoreNeverAborts ==
    IsStore => ret.res.t \in {"Ok", "Err"}

\* C15: an object under a field whose name begins with "__", at the root or
\* deeper, is not an entity: after store_result_data on the empty cache
\* every identity record comes from an identifiable object reached through
\* non-metadata fields alone, and the metadata fields of the root are in the
\* result entry as they were in the document.
C15_MetadataNeverEntities ==
    (IsStore /\ ret.res.t = "Ok" /\ writes = 1) =>
        /\ \A key \in DOMAIN identity_cache :
              \E o \in ValidatedBelowRoot(ret.data) :
                  HasId(o) /\ PairOf(o) = <<JString(key[1]), JString(key[2])>>
        /\ ret.data.k = "Object" =>
              \A f \in (DOMAIN ret.data.v) \cap MetaNames :
                  result_cache[ret.rkey].v[f] = ret.data.v[f]

\* C16: an object without id is embedded as its normalized candidate: no
\* object inside an identity record or below the root of a result entry
\* keeps a metadata field other than the __ref of a marker, and every
\* identity record is flat: no field of a record holds, at any depth, an
\* object that carries id.
C16_EmbeddedCandidate ==
    /\ \A key \in DOMAIN identity_cache :
          \A f \in DOMAIN identity_cache[key].v :
              \A o \in AllObjects(identity_cache[key].v[f]) :
                  ~HasId(o) /\ (DOMAIN o.v) \cap MetaNames \subseteq {REF}
    /\ \A key \in DOMAIN result_cache :
          \A c \in RootChildren(result_cache[key], FALSE) :
              \A o \in AllObjects(c) : (DOMAIN o.v) \cap MetaNames \subseteq {REF}

\* The Key of an object that carries a string __typename and a string id.
KeyOf(o) == <<o.v[TYPENAME].v, o.v[field_name].v>>

\* The identifiable objects nested inside o, met through non-metadata fields.
Nested(o) ==
    {x \in UNION {ObjectsFrom(o.v[f]) : f \in (DOMAIN o.v) \ MetaNames} : HasId(x)}

\* rec is a record made from o: the non-metadata fields of o, with the
\* scalar ones as in o.
MatchesRec(rec, o) ==
    /\ rec.k = "Object"
    /\ DOMAIN rec.v = (DOMAIN o.v) \ MetaNames
    /\ \A f \in DOMAIN rec.v : o.v[f].k \notin {"Object", "Array"} => rec.v[f] = o.v[f]

\* C17: in the list of (Key, record) pairs of one document every
\* identifiable object has a pair, placed after a pair of each identifiable
\* object nested inside it; the puts follow the list, so the record that
\* remains under a Key is the one of the occurrence that encloses all the
\* others, and in a list of entities the one of the last element among
\* those that hold the Key.
C17_DiscoveryOrder ==
    (IsStore /\ ret.res.t = "Ok") =>
        LET list == normalize_root(ret.data).l
            objs == EntityObjects(ret.data)
        IN  /\ \A o \in objs :
                  /\ \E i \in 1..Len(list) : list[i][1] = KeyOf(o) /\ MatchesRec(list[i][2], o)
                  /\ \A i \in 1..Len(list) :
                        (list[i][1] = KeyOf(o) /\ MatchesRec(list[i][2], o)) =>
                            \A n \in Nested(o) : \E j \in 1..(i - 1) : list[j][1] = KeyOf(n)
            /\ \A o \in objs :
                  (\A x \in objs : KeyOf(x) = KeyOf(o) => (x = o \/ x \in Nested(o)))
                      => MatchesRec(identity_cache[KeyOf(o)], o)
            /\ ret.data.k = "Array" =>
                  \A j \in 1..Len(ret.data.v) :
                      LET e == ret.data.v[j]
                      IN  (/\ e.k = "Object"
                           /\ HasId(e)
                           /\ \A h \in (j + 1)..Len(ret.data.v) :
                                 \A x \in ObjectsFrom(ret.data.v[h]) :
                                     HasId(x) => KeyOf(x) # KeyOf(e))
                              => MatchesRec(identity_cache[KeyOf(e)], e)

\* A document was stored in which an entity encloses another occurrence of
\* its own Key, with other fields.
C17_Witness ==
    /\ IsStore /\ ret.res.t = "Ok"
    /\ \E o \in EntityObjects(ret.data) :
          \E n \in Nested(o) : KeyOf(n) = KeyOf(o) /\ DOMAIN n.v # DOMAIN o.v

\* o, an object of a read's result, shows the record rec: the fields of rec
\* and __typename, with the scalar ones as in rec.
Shows(o, rec) ==
    /\ DOMAIN o.v = (DOMAIN rec.v) \cup {TYPENAME}
    /\ \A f \in DOMAIN rec.v : rec.v[f].k \notin {"Object", "Array"} => o.v[f] = rec.v[f]

\* C18: when store_result_data(k2, D2) follows the store of a readable
\* result under another key k1, get_result_data(k1) still returns a
\* document; in it every entity below the root that occurs in D2 shows the
\* body D2 wrote, and every entity that neither occurs in D2 nor touches one
\* that does is there as before.
C18_SharedEntityVisibility ==
    [][(IsStore' /\ ret'.res.t = "Ok" /\ writes' = writes + 1) =>
          \A k1 \in (DOMAIN result_cache) \ {ret'.rkey} :
              LET before == get_result_data(result_cache, identity_cache, k1)
                  after == get_result_data(result_cache', identity_cache', k1)
                  written == {KeyOf(e) : e \in EntityObjects(ret'.data)}
                  ents(doc) == {x \in UNION {AllObjects(c) : c \in RootChildren(doc, TRUE)} :
                                    HasId(x)}
              IN  before.t = "Ok" =>
                    /\ after.t = "Ok"
                    /\ \A o \in ents(after.v) :
                          KeyOf(o) \in written => Shows(o, identity_cache'[KeyOf(o)])
                    /\ \A o \in ents(before.v) :
                          (/\ KeyOf(o) \notin written
                           /\ \A n \in Nested(o) : KeyOf(n) \notin written
                           /\ \A w \in ents(before.v) :
                                 KeyOf(w) \in written => o \notin Nested(w))
                              => o \in ents(after.v)]_vars

\* The objects that a read takes for reference markers in value: those that
\* carry a __ref field.
Markers(value) == {o \in AllObjects(value) : REF \in DOMAIN o.v}

\* marker holds the text of a Key of the identity store.
NamesPresentKey(marker) ==
    \E key \in DOMAIN identity_cache :
        marker.v[REF] = JString(key[1] \o <<":">> \o key[2])

\* C19: after any sequence of store_result_data calls on the empty cache,
\* every __ref marker below the root of a result entry or in a field of an
\* identity record names a Key that is in the identity store.
C19_ReferentialIntegrity ==
    /\ \A key \in DOMAIN result_cache :
          \A c \in RootChildren(result_cache[key], TRUE) :
              \A m \in Markers(c) : NamesPresentKey(m)
    /\ \A key \in DOMAIN identity_cache :
          \A f \in DOMAIN identity_cache[key].v :
              \A m \in Markers(identity_cache[key].v[f]) : NamesPresentKey(m)

\* The operations of trait Cache and Data::new, by the name ret records.
CacheOps ==
    {"identify", "store_result_data", "get_result_data", "store_identity_data",
     "get_identity_data", "Data::new"}

\* C20: store_result_data(k, D) that returns Ok leaves under k the form it
\* returned; whatever it returns, it leaves every other result entry as it
\* was and every identity record whose Key is not the Key of an
\* identifiable object of D as it was; no operation of the cache removes an
\* entry of either store.
C20_FrameOfStore ==
    [][/\ (IsStore' /\ writes' = writes + 1) =>
            /\ ret'.res.t = "Ok" =>
                  /\ ret'.rkey \in DOMAIN result_cache'
                  /\ result_cache'[ret'.rkey] = ret'.res.v
            /\ \A k \in (DOMAIN result_cache) \ {ret'.rkey} :
                  k \in DOMAIN result_cache' /\ result_cache'[k] = result_cache[k]
            /\ LET pairs == {PairOf(e) : e \in EntityObjects(ret'.data)}
               IN  \A key \in DOMAIN identity_cache :
                       <<JString(key[1]), JString(key[2])>> \notin pairs
                           => /\ key \in DOMAIN identity_cache'
                              /\ identity_cache'[key] = identity_cache[key]
       /\ ret'.op \in CacheOps =>
            /\ DOMAIN result_cache \subseteq DOMAIN result_cache'
            /\ DOMAIN identity_cache \subseteq DOMAIN identity_cache']_vars

\* A second document was stored under q2 while q1 held a result and the
\* identity store held a record of a Key that the second document lacks.
C20_Witness ==
    /\ IsStore /\ ret.res.t = "Ok" /\ writes = 2 /\ ret.rkey = "q2"
    /\ "q1" \in DOMAIN result_cache
    /\ \E key \in DOMAIN identity_cache :
          \A e \in EntityObjects(ret.data) :
              PairOf(e) # <<JString(key[1]), JString(key[2])>>

\* C21: with a cache configured, once a query for a request has missed,
\* fetched a response that Data::new accepted and stored it (the store
\* returned Ok), the next query for the same request ends with the document
\* that get_result_data returned and sends nothing; and a query sends only
\* when no cache is configured or get_result_data returned an error.
C21_ClientCacheHit ==
    [][\A q \in QueryIds :
          (query[q].pc = "idle" /\ query'[q].pc # "idle") =>
              /\ \A p \in QueryIds \ {q} :
                    (/\ configured
                     /\ query[p].pc = "done"
                     /\ query[p].stored
                     /\ query[p].request = query'[q].request)
                        => /\ query'[q].pc = "done"
                           /\ query'[q].res.t = "Ok"
                           /\ query'[q].sends = 0
              /\ query'[q].sends > 0 =>
                    \/ ~configured
                    \/ get_result_data(result_cache, identity_cache,
                                       request_body_hash(query'[q].request)).t = "Err"]_vars

RECURSIVE Replay(_)
\* The two stores after the store_result_data calls of log, one after the
\* other, on the empty cache.
Replay(log) ==
    IF log = <<>> THEN [result_cache |-> <<>>, identity_cache |-> <<>>]
    ELSE LET c == Replay(SubSeq(log, 1, Len(log) - 1))
             last == log[Len(log)]
             s == store_result_data(c.result_cache, c.identity_cache, last[1], last[2])
         IN  [result_cache |-> s.result_cache, identity_cache |-> s.identity_cache]

\* C22: while a query is suspended at its send no borrow of the cache is
\* held; no query finds the cache borrowed when it borrows it; and the two
\* stores are what the store_result_data calls made so far give when they
\* are executed one after the other in the order they completed.
C22_ExclusiveAccess ==
    /\ (\E q \in QueryIds : query[q].pc = "sending") => borrow = {}
    /\ \A q \in QueryIds : query[q].res.t # "BorrowMutError"
    /\ result_cache = Replay(applied).result_cache
    /\ identity_cache = Replay(applied).identity_cache

\* Two queries for one request were interleaved: both sent and both stored,
\* although the document stored first (test_data1) is one the second
\* lookup would have been answered with.
C22_Witness ==
    /\ configured
    /\ \A q \in QueryIds : query[q].pc = "done" /\ query[q].stored /\ query[q].sends = 1
    /\ query[1].request = query[2].request
    /\ Len(applied) = 2
    /\ applied[1][2] = test_data1
    /\ applied[2][2] # test_data1

====
